---- MODULE Spec2Model ----
(***************************************************************************)
(* A model of cnvlib/reference.py: the construction of a pooled copy-number *)
(* reference (combine_probes), the flat reference (bed2probes), the         *)
(* bad-probe filter and its report (mask_bad_probes, warn_bad_probes) and   *)
(* the GC / RepeatMasker statistics (calculate_gc_lo, get_fasta_stats).     *)
(*                                                                         *)
(* A CopyNumArray is a record of parallel columns: chromosome, start, end,  *)
(* gene, coverage and, when present, gc, rmask and spread.  `key in cnarr`  *)
(* is `key \in DOMAIN cnarr`.  Coverage is a log2 ratio; the model counts   *)
(* it in units of 1.0, the unit of every shift the code applies.            *)
(***************************************************************************)
EXTENDS Integers, Sequences, FiniteSets, TLC

VARIABLES
    \* combine_probes(filenames, has_genome, is_male_normal)
    filenames,        \* the argument: the names of the sample files
    has_genome,       \* the argument
    is_male_normal,   \* the argument
    pc,               \* "start", "loop", "done", "error"; "idle" outside a build
    files,            \* what CNA.read returned for each file read so far
    cnarr1,           \* the first sample, after shift_sex_chroms changed it
    chr_x,            \* line 36
    chr_y,            \* line 37
    pset,             \* the sample read last, as the loop body left it
    all_coverages,    \* line 68, 81: one coverage vector per sample
    result,           \* the returned CopyNumArray, or NoValue
    error,            \* the RuntimeError raised, or NoValue
    \* bed2probes(bed_fname)
    bed_regions,      \* what ngfrills.parse_regions yields for the file
    want_annotation,  \* whether the caller asked for gc and rmask columns;
                      \* bed2probes takes no such argument
    flat,             \* the returned CopyNumArray, or NoValue
    \* mask_bad_probes(probes), warn_bad_probes(probes)
    probes,           \* the argument: a reference profile, or NoValue
    mask,             \* what mask_bad_probes returned, or NoValue
    report,           \* what warn_bad_probes wrote, or NoValue
    \* calculate_gc_lo(subseq), get_fasta_stats(probes, fa_fname)
    subseq,           \* the argument of calculate_gc_lo, or NoValue
    gc_lo,            \* what calculate_gc_lo returned, or NoValue
    fa_subseqs,       \* what ngfrills.fasta_extract_regions yields, one
                      \* subsequence per probe, or NoValue
    fasta_stats       \* what get_fasta_stats returned or raised, or NoValue

combineVars ==
    <<filenames, has_genome, is_male_normal, pc, files, cnarr1, chr_x, chr_y,
      pset, all_coverages, result, error>>

flatVars == <<bed_regions, want_annotation, flat>>
filterVars == <<probes, mask, report>>
fastaVars == <<subseq, gc_lo, fa_subseqs, fasta_stats>>

vars == <<combineVars, flatVars, filterVars, fastaVars>>

NoValue == [none |-> TRUE]

\* The variables of the operations a specification does not run.
CombineIdle ==
    /\ filenames = NoValue /\ has_genome = NoValue /\ is_male_normal = NoValue
    /\ pc = "idle" /\ files = <<>> /\ cnarr1 = NoValue /\ chr_x = NoValue
    /\ chr_y = NoValue /\ pset = NoValue /\ all_coverages = <<>>
    /\ result = NoValue /\ error = NoValue
FlatIdle == bed_regions = NoValue /\ want_annotation = NoValue /\ flat = NoValue
FilterIdle == probes = NoValue /\ mask = NoValue /\ report = NoValue
FastaIdle ==
    /\ subseq = NoValue /\ gc_lo = NoValue
    /\ fa_subseqs = NoValue /\ fasta_stats = NoValue

(***************************************************************************)
(* Bounds and input sets.                                                  *)
(***************************************************************************)
MaxSamples == 3

\* Coverages a sample file may hold for a probe.
CovValues == {0, 1}

\* The chromosome names that start with "chr" (str.startswith('chr')).
ChrPrefixed == {"chr1", "chrX", "chrY"}
Genes == {"GeneA", "Background"}

\* The probe grids of the first sample file: chromosome layouts in both
\* naming conventions, with and without rows on X, on Y and on an autosome.
FirstChromosomes ==
    { <<"chr1", "chrX">>, <<"chr1", "chrY">>, <<"chrX", "chrY">>,
      <<"chrX", "chrX">>, <<"1", "X">>, <<"X", "Y">>, <<"chrY">> }

\* The layouts of the files made by import-picard, which store a gc column.
PicardChromosomes == { <<"chr1", "chrX">> }

Grid(chroms) ==
    [chromosome |-> chroms,
     start      |-> [i \in DOMAIN chroms |-> i - 1],
     end        |-> [i \in DOMAIN chroms |-> i],
     gene       |-> [i \in DOMAIN chroms |->
                        IF i = 1 THEN "GeneA" ELSE "Background"]]

\* f extended with one more key.
With(f, key, val) == [k \in DOMAIN f \cup {key} |-> IF k = key THEN val ELSE f[k]]

\* A sample file: a grid, a coverage per probe and the verdict `xx` of the
\* sex-inference predicate on the sample's data.
Sample(chroms, cov, xx) == With(With(Grid(chroms), "coverage", cov), "xx", xx)

\* The sample files CNA.read may return for filenames[0]: files made by
\* 'coverage', and files made by import-picard, with gc in hundredths.
CoverageSamples ==
    UNION { { Sample(chroms, cov, xx)
              : cov \in [DOMAIN chroms -> CovValues], xx \in BOOLEAN }
          : chroms \in FirstChromosomes }

PicardSamples ==
    UNION { { With(Sample(chroms, cov, xx), "gc", [i \in DOMAIN chroms |-> 40 + i])
              : cov \in [DOMAIN chroms -> CovValues], xx \in BOOLEAN }
          : chroms \in PicardChromosomes }

FirstSamples == CoverageSamples \cup PicardSamples

\* A differing value for one cell of a grid column.
OtherChromosome(c) == IF c = "chrX" THEN "X" ELSE "chrX"
OtherGene(g) == IF g = "Background" THEN "GeneA" ELSE "Background"

GridKeys == {"chromosome", "start", "end", "gene"}

\* The first n rows of every column of p (xx is not a column).
Rows(p, n) ==
    [k \in DOMAIN p |-> IF k = "xx" THEN p[k] ELSE SubSeq(p[k], 1, n)]

\* p with a copy of its last row appended.
OneMoreRow(p) ==
    [k \in DOMAIN p |-> IF k = "xx" THEN p[k] ELSE Append(p[k], p[k][Len(p[k])])]

\* The sample files CNA.read may return for a later file name, given the
\* first file: the same grid with any coverage and any sex verdict, or a
\* grid that differs from the first in length or in one cell of one column.
SameGridSamples(first) ==
    { [first EXCEPT !.coverage = cov, !.xx = xx]
      : cov \in [DOMAIN first.coverage -> CovValues], xx \in BOOLEAN }

OtherGridSamples(first) ==
    LET n == Len(first.chromosome)
    IN  UNION { { Rows(s, n - 1), OneMoreRow(s) }
                \cup { [s EXCEPT !.chromosome[i] = OtherChromosome(@)] : i \in 1..n }
                \cup { [s EXCEPT !.start[i] = @ + 1] : i \in 1..n }
                \cup { [s EXCEPT !.end[i] = @ + 1] : i \in 1..n }
                \cup { [s EXCEPT !.gene[i] = OtherGene(@)] : i \in 1..n }
              : s \in SameGridSamples(first) }

NextSamples(first) == SameGridSamples(first) \cup OtherGridSamples(first)

(***************************************************************************)
(* Collaborators of reference.py whose code is in cnvlib.core, cnvlib       *)
(* .metrics and cnvlib.cnarray.                                             *)
(***************************************************************************)
\* len(cnarr)
NumProbes(cnarr) == Len(cnarr.chromosome)

\* core.guess_chr_x: the naming convention of the sample, "chr"-prefixed or
\* bare, read off its first probe.
guess_chr_x(cnarr) ==
    IF cnarr.chromosome[1] \in ChrPrefixed THEN "chrX" ELSE "X"

\* core.guess_xx: the sex-inference predicate, a function of the sample's
\* data; the sample file carries its verdict.
guess_xx(cnarr, cx) == cnarr.xx

\* A column of equal values.
IsConstant(col) == \A i \in DOMAIN col : col[i] = col[1]

\* An estimate the estimators return: a number, Exact(v), or the estimator
\* applied to a column of unequal values, which the model leaves
\* uninterpreted.
Exact(v) == [value |-> v]

\* metrics.biweight_location: the common value of a column of equal values
\* (so also of a single value).
biweight_location(col) ==
    IF IsConstant(col) THEN Exact(col[1])
    ELSE [estimator |-> "biweight_location", of |-> col]

\* metrics.biweight_midvariance: 0 for a column of equal values.
biweight_midvariance(col) ==
    IF IsConstant(col) THEN Exact(0)
    ELSE [estimator |-> "biweight_midvariance", of |-> col]

(***************************************************************************)
(* combine_probes                                                          *)
(***************************************************************************)
\* line 37 with 'chrY' whatever the convention.
chr_y_always_prefixed(cx) == "chrY"

\* line 37
chr_y_label(cx) == IF cx \in ChrPrefixed THEN "chrY" ELSE "Y"

\* column += delta, the chromosome test left out.
AddEverywhere(column, chromosome, label, delta) ==
    [i \in DOMAIN column |-> column[i] + delta]

\* column[chromosome == label] += delta
AddWhere(column, chromosome, label, delta) ==
    [i \in DOMAIN column |->
        IF chromosome[i] = label THEN column[i] + delta ELSE column[i]]

\* column[chromosome == label] = value
SetWhere(column, chromosome, label, value) ==
    [i \in DOMAIN column |->
        IF chromosome[i] = label THEN value ELSE column[i]]

\* lines 38-65 with the female-normal branches exchanged: chrX += 1 for an
\* XX sample, chrY = -1 for an XY sample.
shift_sex_chroms_exchanged(sample, male_normal, cx, cy) ==
    LET is_xx == guess_xx(sample, cx)
        chrom == sample.chromosome
    IN  IF male_normal
        THEN IF is_xx
             THEN [sample EXCEPT !.coverage =
                      SetWhere(AddWhere(@, chrom, cx, -1), chrom, cy, -1)]
             ELSE sample
        ELSE IF is_xx
             THEN [sample EXCEPT !.coverage = AddWhere(@, chrom, cx, 1)]
             ELSE [sample EXCEPT !.coverage = SetWhere(@, chrom, cy, -1)]

\* lines 38-65: the sample as shift_sex_chroms leaves it.
shift_sex_chroms(sample, male_normal, cx, cy) ==
    LET is_xx == guess_xx(sample, cx)
        chrom == sample.chromosome
    IN  IF male_normal
        THEN IF is_xx
             THEN [sample EXCEPT !.coverage =
                      SetWhere(AddWhere(@, chrom, cx, -1), chrom, cy, -1)]
             ELSE sample
        ELSE IF is_xx
             THEN [sample EXCEPT !.coverage = SetWhere(@, chrom, cy, -1)]
             ELSE [sample EXCEPT !.coverage = AddWhere(@, chrom, cx, 1)]

\* lines 73-77 with the comparison of the start columns left out.
probes_match_no_start(first, other) ==
    /\ NumProbes(first) = NumProbes(other)
    /\ first.chromosome = other.chromosome
    /\ first.end = other.end
    /\ first.gene = other.gene

\* lines 73-77: the test whose failure raises.
probes_match(first, other) ==
    /\ NumProbes(first) = NumProbes(other)
    /\ first.chromosome = other.chromosome
    /\ first.start = other.start
    /\ first.end = other.end
    /\ first.gene = other.gene

\* lines 78-79: the RuntimeError raised for file name fname.
mismatch_error(fname, names) == [probes_of |-> fname, do_not_match |-> names[1]]

\* Every probe given the first probe's column.
Column_first(matrix, j) == [i \in DOMAIN matrix |-> matrix[i][1]]

\* numpy.apply_along_axis(f, 0, matrix) takes each column of the matrix.
Column(matrix, j) == [i \in DOMAIN matrix |-> matrix[i][j]]

\* lines 90-100 with the two tests for gc in the other order: has_genome
\* first, so that a stored gc column is replaced by zeros.
reference_kwargs_genome_first(first, genome, spreads) ==
    LET zeros == [i \in 1..NumProbes(first) |-> 0]
        k1 == [spread |-> spreads]
        k2 == IF genome THEN With(k1, "gc", zeros)
              ELSE IF "gc" \in DOMAIN first THEN With(k1, "gc", first.gc)
              ELSE k1
    IN  IF genome THEN With(k2, "rmask", zeros) ELSE k2

\* lines 90-100: the keyword columns of the reference.
reference_kwargs(first, genome, spreads) ==
    LET zeros == [i \in 1..NumProbes(first) |-> 0]
        k1 == [spread |-> spreads]
        k2 == IF "gc" \in DOMAIN first THEN With(k1, "gc", first.gc)
              ELSE IF genome THEN With(k1, "gc", zeros)
              ELSE k1
    IN  IF genome THEN With(k2, "rmask", zeros) ELSE k2

\* lines 82-102: the CopyNumArray returned.
make_reference(first, matrix, genome) ==
    LET probeIx == 1..NumProbes(first)
        cvg_centers == [j \in probeIx |-> biweight_location(Column(matrix, j))]
        spreads == [j \in probeIx |-> biweight_midvariance(Column(matrix, j))]
        kwargs == reference_kwargs(first, genome, spreads)
        base == [chromosome |-> first.chromosome, start |-> first.start,
                 end |-> first.end, gene |-> first.gene,
                 coverage |-> cvg_centers]
    IN  [k \in DOMAIN base \cup DOMAIN kwargs |->
            IF k \in DOMAIN kwargs THEN kwargs[k] ELSE base[k]]

InitCombine ==
    /\ filenames \in { [i \in 1..n |-> i] : n \in 1..MaxSamples }
    /\ has_genome \in BOOLEAN
    /\ is_male_normal \in BOOLEAN
    /\ pc = "start"
    /\ files = <<>>
    /\ cnarr1 = NoValue
    /\ chr_x = NoValue
    /\ chr_y = NoValue
    /\ pset = NoValue
    /\ all_coverages = <<>>
    /\ result = NoValue
    /\ error = NoValue
    /\ FlatIdle /\ FilterIdle /\ FastaIdle

\* lines 32-68: read the first file, infer the labels, shift it.
LoadFirst ==
    /\ pc = "start"
    /\ \E f \in FirstSamples :
         LET cx == guess_chr_x(f)
             cy == chr_y_label(cx)
             shifted == shift_sex_chroms(f, is_male_normal, cx, cy)
         IN  /\ files' = <<f>>
             /\ chr_x' = cx
             /\ chr_y' = cy
             /\ cnarr1' = shifted
             /\ pset' = shifted
             /\ all_coverages' = <<shifted.coverage>>
    /\ pc' = "loop"
    /\ UNCHANGED <<filenames, has_genome, is_male_normal, result, error>>
    /\ UNCHANGED <<flatVars, filterVars, fastaVars>>

\* lines 69-81, one iteration: read the next file; raise if its probes do
\* not match the first file's, else shift it and keep its coverage.
LoadNext ==
    /\ pc = "loop"
    /\ Len(files) < Len(filenames)
    /\ \E f \in NextSamples(files[1]) :
         LET fname == filenames[Len(files) + 1]
         IN  IF ~ probes_match(cnarr1, f)
             THEN /\ error' = mismatch_error(fname, filenames)
                  /\ pc' = "error"
                  /\ pset' = [k \in GridKeys |-> f[k]]
                  /\ UNCHANGED <<files, all_coverages>>
             ELSE LET shifted == shift_sex_chroms(f, is_male_normal, chr_x, chr_y)
                  IN  /\ files' = Append(files, f)
                      /\ pset' = shifted
                      /\ all_coverages' = Append(all_coverages, shifted.coverage)
                      /\ UNCHANGED <<pc, error>>
    /\ UNCHANGED <<filenames, has_genome, is_male_normal, cnarr1, chr_x, chr_y,
                   result>>
    /\ UNCHANGED <<flatVars, filterVars, fastaVars>>

\* lines 82-102: pool the coverages and return the reference.
Finish ==
    /\ pc = "loop"
    /\ Len(files) = Len(filenames)
    /\ result' = make_reference(cnarr1, all_coverages, has_genome)
    /\ pc' = "done"
    /\ UNCHANGED <<filenames, has_genome, is_male_normal, files, cnarr1, chr_x,
                   chr_y, pset, all_coverages, error>>
    /\ UNCHANGED <<flatVars, filterVars, fastaVars>>

NextCombine == LoadFirst \/ LoadNext \/ Finish

SpecCombine == InitCombine /\ [][NextCombine]_vars


(***************************************************************************)
(* Properties of combine_probes.                                           *)
(***************************************************************************)
ProbeIx(sample) == 1..Len(sample.chromosome)

\* Section 4.1's table: the coverage a probe on chromosome c must have
\* after normalization, given its coverage before, the convention, the
\* sample's sex and the X and Y labels.
TableCoverage(before, c, male_normal, xx, lx, ly) ==
    IF male_normal /\ xx
    THEN (IF c = lx THEN before - 1 ELSE IF c = ly THEN -1 ELSE before)
    ELSE IF male_normal /\ ~ xx
    THEN before
    ELSE IF xx
    THEN (IF c = ly THEN -1 ELSE before)
    ELSE (IF c = lx THEN before + 1 ELSE before)

\* C1: for each of the four combinations of (is_male_normal, sample is XX),
\* every sample that shift_sex_chroms has processed has the X and Y
\* coverages of the table: male-normal/XX: X rows coverage - 1.0, Y rows
\* -1.0; male-normal/XY: unchanged; female-normal/XX: X rows unchanged, Y
\* rows -1.0; female-normal/XY: X rows coverage + 1.0, Y rows unchanged.
C1_ShiftMatchesTable ==
    \A i \in 1..Len(files) : \A j \in ProbeIx(files[i]) :
        LET before == files[i].coverage[j]
            after == all_coverages[i][j]
            onX == files[i].chromosome[j] = chr_x
            onY == files[i].chromosome[j] = chr_y
            xx == files[i].xx
        IN  /\ (is_male_normal /\ xx) =>
                 /\ onX => after = before - 1
                 /\ onY => after = -1
            /\ (is_male_normal /\ ~ xx) =>
                 /\ onX => after = before
                 /\ onY => after = before
            /\ (~ is_male_normal /\ xx) =>
                 /\ onX => after = before
                 /\ onY => after = -1
            /\ (~ is_male_normal /\ ~ xx) =>
                 /\ onX => after = before + 1
                 /\ onY => after = before

\* A female-normal build has shifted an XY sample after an XX sample, both
\* with a row on X and a row on Y.
C1_Witness ==
    /\ ~ is_male_normal
    /\ Len(files) = 2
    /\ files[1].chromosome = <<"chrX", "chrY">>
    /\ files[1].xx /\ ~ files[2].xx
    /\ all_coverages[1] = <<files[1].coverage[1], -1>>
    /\ all_coverages[2] = <<files[2].coverage[1] + 1, files[2].coverage[2]>>

\* C2: sex-chromosome normalization changes nothing but the coverage of
\* rows on the X or the Y label: the coverage of every other row, and the
\* chromosome, start, end and gene of every row, are as they were read.
C2_ShiftFrame ==
    /\ \A i \in 1..Len(files) : \A j \in ProbeIx(files[i]) :
          files[i].chromosome[j] \notin {chr_x, chr_y}
              => all_coverages[i][j] = files[i].coverage[j]
    /\ pc \in {"loop", "done"} =>
          /\ \A k \in GridKeys :
                /\ pset[k] = files[Len(files)][k]
                /\ cnarr1[k] = files[1][k]
          /\ pset.coverage = all_coverages[Len(files)]
          /\ cnarr1.coverage = all_coverages[1]

\* A male-normal build has shifted an XX sample with an autosomal row and
\* an X row: the X coverage moved, the autosomal one did not.
C2_Witness ==
    /\ is_male_normal
    /\ Len(files) >= 1
    /\ files[1].chromosome = <<"chr1", "chrX">>
    /\ files[1].xx
    /\ all_coverages[1][1] = files[1].coverage[1]
    /\ all_coverages[1][2] = files[1].coverage[2] - 1

\* Two samples differ in length or in a cell of a grid column.
GridDiffers(a, b) ==
    \/ Len(a.chromosome) # Len(b.chromosome)
    \/ \E k \in GridKeys : \E j \in 1..Len(a.chromosome) : a[k][j] # b[k][j]

\* C3: the build ends with an error exactly when a sample after the first
\* differs from the first in length or in a cell of its chromosome, start,
\* end or gene column; the error names that sample's file and the first
\* file, and no reference is returned.  No sample that was accepted
\* differs, wherever in the list it is.
C3_MismatchRaises ==
    /\ pc = "error" =>
          /\ GridDiffers(files[1], pset)
          /\ error = [probes_of |-> filenames[Len(files) + 1],
                      do_not_match |-> filenames[1]]
          /\ result = NoValue
    /\ pc # "error" =>
          /\ error = NoValue
          /\ \A i \in 1..Len(files) : ~ GridDiffers(files[1], files[i])
    /\ pc = "done" => result # NoValue /\ Len(files) = Len(filenames)

\* The third file differs from the first in one start coordinate only,
\* after a second file that matched, and the build ended with the error.
C3_Witness ==
    /\ pc = "error"
    /\ Len(files) = 2
    /\ error = [probes_of |-> 3, do_not_match |-> 1]
    /\ pset.start # files[1].start
    /\ pset.chromosome = files[1].chromosome
    /\ pset.end = files[1].end
    /\ pset.gene = files[1].gene

\* C4: pooling K >= 1 identical copies of one sample gives, for every
\* probe, spread 0 and a coverage equal to the sample's sex-normalized
\* coverage; and each probe's center and spread come from that probe's
\* column alone: a probe whose normalized coverage is the same in every
\* sample has that coverage and spread 0 whatever the other probes hold.
C4_IdenticalCopies ==
    pc = "done" =>
        /\ (\A i \in 1..Len(files) : files[i] = files[1]) =>
              \A j \in ProbeIx(files[1]) :
                 /\ result.coverage[j] =
                       Exact(TableCoverage(files[1].coverage[j],
                                           files[1].chromosome[j],
                                           is_male_normal, files[1].xx,
                                           chr_x, chr_y))
                 /\ result.spread[j] = Exact(0)
        /\ \A j \in ProbeIx(files[1]) :
              (\A i \in 1..Len(files) : all_coverages[i][j] = all_coverages[1][j])
                  => /\ result.coverage[j] = Exact(all_coverages[1][j])
                     /\ result.spread[j] = Exact(0)

\* Three identical copies of an XX sample whose two probes end with
\* different normalized coverages were pooled.
C4_Witness ==
    /\ pc = "done"
    /\ Len(files) = 3
    /\ files[2] = files[1] /\ files[3] = files[1]
    /\ result.spread = <<Exact(0), Exact(0)>>
    /\ result.coverage[1] # result.coverage[2]

\* C8: a successful build returns the first sample's chromosome, start,
\* end and gene columns, always with a spread column; its gc column is the
\* first sample's gc when the first sample has one, else all zero when
\* has_genome, else absent; its rmask column is present, all zero, exactly
\* when has_genome.
C8_ReferenceColumns ==
    pc = "done" =>
        LET zero == [j \in ProbeIx(files[1]) |-> 0]
        IN  /\ \A k \in GridKeys : result[k] = files[1][k]
            /\ "spread" \in DOMAIN result
            /\ Len(result.spread) = Len(files[1].chromosome)
            /\ Len(result.coverage) = Len(files[1].chromosome)
            /\ IF "gc" \in DOMAIN files[1]
               THEN "gc" \in DOMAIN result /\ result.gc = files[1].gc
               ELSE IF has_genome
               THEN "gc" \in DOMAIN result /\ result.gc = zero
               ELSE "gc" \notin DOMAIN result
            /\ IF has_genome
               THEN "rmask" \in DOMAIN result /\ result.rmask = zero
               ELSE "rmask" \notin DOMAIN result

\* A build with has_genome whose first sample carries gc returned that gc
\* and a zero rmask.
C8_Witness ==
    /\ pc = "done"
    /\ has_genome
    /\ "gc" \in DOMAIN files[1]
    /\ result.gc = files[1].gc
    /\ result.gc # result.rmask

\* The X and Y labels the first sample gives.
FirstLabelX == IF files[1].chromosome[1] \in ChrPrefixed THEN "chrX" ELSE "X"
FirstLabelY == IF files[1].chromosome[1] \in ChrPrefixed THEN "chrY" ELSE "Y"

\* C9 as stated: every later sample is shifted according to the sex
\* inferred from the first sample, with the first sample's labels.
C9_SexOfFirstSample ==
    \A i \in 2..Len(files) : \A j \in ProbeIx(files[i]) :
        all_coverages[i][j] =
            TableCoverage(files[i].coverage[j], files[i].chromosome[j],
                          is_male_normal, files[1].xx, FirstLabelX, FirstLabelY)

\* C9, amended: the X and Y labels used for every sample are the ones
\* inferred from the first sample, and each sample is shifted according to
\* the sex inferred from that sample itself.
C9_LabelsOfFirstSexOfEach ==
    /\ Len(files) >= 1 => chr_x = FirstLabelX /\ chr_y = FirstLabelY
    /\ \A i \in 1..Len(files) : \A j \in ProbeIx(files[i]) :
          all_coverages[i][j] =
              TableCoverage(files[i].coverage[j], files[i].chromosome[j],
                            is_male_normal, files[i].xx, FirstLabelX, FirstLabelY)

\* A male-normal build in the bare naming convention shifted an XX sample
\* after an XY first sample: its X row went down by one and its Y row to -1,
\* which the first sample's sex would have left alone.
C9_Witness ==
    /\ is_male_normal
    /\ Len(files) = 2
    /\ files[1].chromosome = <<"X", "Y">>
    /\ ~ files[1].xx /\ files[2].xx
    /\ all_coverages[1] = files[1].coverage
    /\ all_coverages[2] = <<files[2].coverage[1] - 1, -1>>


(***************************************************************************)
(* bed2probes                                                              *)
(***************************************************************************)
MaxRegions == 2

\* The (chromosome, start, end, name) lines a BED file may hold.
BedLines == {"chr1", "chrX"} \X {0, 1} \X {1, 2} \X Genes

BedFiles == UNION { [1..n -> BedLines] : n \in 0..MaxRegions }

\* lines 14-17 with the start and end of every row exchanged.
bed2probes_swapped(regions) ==
    LET zeros == [i \in DOMAIN regions |-> 0]
    IN  [chromosome |-> [i \in DOMAIN regions |-> regions[i][1]],
         start      |-> [i \in DOMAIN regions |-> regions[i][3]],
         end        |-> [i \in DOMAIN regions |-> regions[i][2]],
         gene       |-> [i \in DOMAIN regions |-> regions[i][4]],
         coverage   |-> zeros,
         gc         |-> zeros,
         rmask      |-> zeros,
         spread     |-> zeros]

\* lines 14-17: one row (chrom, start, end, name, 0, 0, 0, 0) per region;
\* the four zeros are coverage and the extra keys gc, rmask and spread.
bed2probes(regions) ==
    LET zeros == [i \in DOMAIN regions |-> 0]
    IN  [chromosome |-> [i \in DOMAIN regions |-> regions[i][1]],
         start      |-> [i \in DOMAIN regions |-> regions[i][2]],
         end        |-> [i \in DOMAIN regions |-> regions[i][3]],
         gene       |-> [i \in DOMAIN regions |-> regions[i][4]],
         coverage   |-> zeros,
         gc         |-> zeros,
         rmask      |-> zeros,
         spread     |-> zeros]

InitFlat ==
    /\ bed_regions \in BedFiles
    /\ want_annotation \in BOOLEAN
    /\ flat = NoValue
    /\ CombineIdle /\ FilterIdle /\ FastaIdle

Bed2Probes ==
    /\ flat = NoValue
    /\ flat' = bed2probes(bed_regions)
    /\ UNCHANGED <<bed_regions, want_annotation>>
    /\ UNCHANGED <<combineVars, filterVars, fastaVars>>

NextFlat == Bed2Probes

SpecFlat == InitFlat /\ [][NextFlat]_vars

\* The flat profile has one row per region, in order, with the region's
\* chromosome, start and end, its name as gene, and coverage and spread 0.
FlatRows ==
    /\ \A k \in {"chromosome", "start", "end", "gene", "coverage", "spread"} :
          /\ k \in DOMAIN flat
          /\ Len(flat[k]) = Len(bed_regions)
    /\ \A i \in 1..Len(bed_regions) :
          /\ flat.chromosome[i] = bed_regions[i][1]
          /\ flat.start[i] = bed_regions[i][2]
          /\ flat.end[i] = bed_regions[i][3]
          /\ flat.gene[i] = bed_regions[i][4]
          /\ flat.coverage[i] = 0
          /\ flat.spread[i] = 0

\* C7 as stated: the flat build gives one row per interval in order, with
\* chromosome, start and end copied, gene from the name, coverage 0.0 and
\* spread 0.0, and gc and rmask columns exactly when they were requested.
C7_ColumnsIffRequested ==
    flat # NoValue =>
        /\ FlatRows
        /\ "gc" \in DOMAIN flat <=> want_annotation
        /\ "rmask" \in DOMAIN flat <=> want_annotation

\* C7, amended: as above, but the gc and rmask columns are always present
\* and all zero, whether or not they were requested.
C7_ColumnsAlways ==
    flat # NoValue =>
        /\ FlatRows
        /\ DOMAIN flat = {"chromosome", "start", "end", "gene", "coverage",
                          "gc", "rmask", "spread"}
        /\ flat.gc = [i \in 1..Len(bed_regions) |-> 0]
        /\ flat.rmask = [i \in 1..Len(bed_regions) |-> 0]

\* A flat profile of two intervals was built with no annotation requested.
C7_Witness ==
    /\ flat # NoValue
    /\ ~ want_annotation
    /\ bed_regions = << <<"chr1", 0, 1, "GeneA">>, <<"chrX", 1, 2, "Background">> >>
    /\ flat.gene = <<"GeneA", "Background">>
    /\ flat.gc = <<0, 0>>


(***************************************************************************)
(* mask_bad_probes, warn_bad_probes                                        *)
(***************************************************************************)
MaxFilterProbes == 2

\* cnvlib.params: coverage and spread count in units of 1.0, rmask in
\* hundredths.
MIN_BIN_COVERAGE == -5
MAX_BIN_SPREAD == 1
MAX_REPEAT_FRACTION == 99

\* The values a probe of a reference may hold: at and beyond each threshold.
FilterCoverages == {MIN_BIN_COVERAGE - 1, MIN_BIN_COVERAGE}
FilterSpreads == {MAX_BIN_SPREAD, MAX_BIN_SPREAD + 1}
FilterRmasks == {MAX_REPEAT_FRACTION, MAX_REPEAT_FRACTION + 1}
FilterGenes == {"GeneA", "GeneB", "Background"}

\* A reference profile given to the filter: n probes with the genes,
\* coverages and spreads given and, with_rmask, an rmask column.
FilterProfile(n, genes, coverages, spreads, with_rmask, rmasks) ==
    LET base == [chromosome |-> [i \in 1..n |-> "chr1"],
                 start |-> [i \in 1..n |-> i - 1],
                 end |-> [i \in 1..n |-> i],
                 gene |-> genes, coverage |-> coverages, spread |-> spreads]
    IN  IF with_rmask THEN With(base, "rmask", rmasks) ELSE base

\* lines 150-154 with "coverage <= MIN_BIN_COVERAGE" for "<".
mask_bad_probes_le(p) ==
    LET m == [i \in 1..NumProbes(p) |->
                 \/ p.coverage[i] <= MIN_BIN_COVERAGE
                 \/ p.spread[i] > MAX_BIN_SPREAD]
    IN  IF "rmask" \in DOMAIN p
        THEN [i \in 1..NumProbes(p) |-> m[i] \/ p.rmask[i] > MAX_REPEAT_FRACTION]
        ELSE m

\* lines 150-154
mask_bad_probes(p) ==
    LET m == [i \in 1..NumProbes(p) |->
                 \/ p.coverage[i] < MIN_BIN_COVERAGE
                 \/ p.spread[i] > MAX_BIN_SPREAD]
    IN  IF "rmask" \in DOMAIN p
        THEN [i \in 1..NumProbes(p) |-> m[i] \/ p.rmask[i] > MAX_REPEAT_FRACTION]
        ELSE m

\* The number of TRUE entries: sum(bools), len(array[bools]).
CountTrue(bools) == Cardinality({i \in DOMAIN bools : bools[i]})

\* line 115 with gene == 'Background' for gene != 'Background'.
foreground_total_eq(p) ==
    CountTrue([i \in 1..NumProbes(p) |-> p.gene[i] = "Background"])

\* line 115: sum(probes['gene'] != 'Background')
foreground_total(p) ==
    CountTrue([i \in 1..NumProbes(p) |-> p.gene[i] # "Background"])

\* line 140: sum(probes['gene'] == 'Background')
background_total(p) ==
    CountTrue([i \in 1..NumProbes(p) |-> p.gene[i] = "Background"])

\* cnarray.row2label: the region label of probe i.
row2label(p, i) == <<p.chromosome[i], p.start[i], p.end[i]>>

\* 100 * count / total under true division: the quotient as a fraction.
Percent(count, total) == <<100 * count, total>>

\* lines 121-135: the lines printed for the probes ixs, the gene shown as
\* '  "' when it is last_gene (<<>> for None, else <<gene>>).  The padding
\* of gene and label to the widest of each (ljust) is layout only.
RECURSIVE listing(_, _, _)
listing(p, ixs, last_gene) ==
    IF ixs = <<>> THEN <<>>
    ELSE LET i == Head(ixs)
             same == last_gene = <<p.gene[i]>>
             shown == IF same THEN "  \"" ELSE p.gene[i]
             fields == [gene |-> shown, label |-> row2label(p, i),
                        coverage |-> p.coverage[i], spread |-> p.spread[i]]
             line == IF "rmask" \in DOMAIN p
                     THEN With(fields, "rmask", p.rmask[i])
                     ELSE fields
         IN  <<line>> \o listing(p, Tail(ixs),
                                 IF same THEN last_gene ELSE <<shown>>)

\* lines 110-142: what warn_bad_probes writes: the foreground warning with
\* its listing and the antitarget line, each NoValue when not written;
\* raised when a percentage divides by zero.
warn_bad_probes(p) ==
    LET m == mask_bad_probes(p)
        IsBad(i) == m[i]
        bad == SelectSeq([i \in 1..NumProbes(p) |-> i], IsBad)
        IsFg(i) == p.gene[i] # "Background"
        IsBg(i) == ~ IsFg(i)
        fg_bad == SelectSeq(bad, IsFg)
        bg_bad == SelectSeq(bad, IsBg)
        fg == IF Len(fg_bad) > 0
              THEN [count |-> Len(fg_bad),
                    pct |-> Percent(Len(fg_bad), foreground_total(p)),
                    lines |-> listing(p, fg_bad, <<>>)]
              ELSE NoValue
        bg == IF Len(bg_bad) > 0
              THEN [count |-> Len(bg_bad),
                    pct |-> Percent(Len(bg_bad), background_total(p))]
              ELSE NoValue
    IN  IF Len(fg_bad) > 0 /\ foreground_total(p) = 0
        THEN [fg |-> NoValue, bg |-> NoValue, raised |-> TRUE]
        ELSE IF Len(bg_bad) > 0 /\ background_total(p) = 0
        THEN [fg |-> fg, bg |-> NoValue, raised |-> TRUE]
        ELSE [fg |-> fg, bg |-> bg, raised |-> FALSE]

InitFilter ==
    /\ \E n \in 0..MaxFilterProbes :
       \E g \in [1..n -> FilterGenes], c \in [1..n -> FilterCoverages],
          s \in [1..n -> FilterSpreads],
          with_rmask \in BOOLEAN, r \in [1..n -> FilterRmasks] :
            probes = FilterProfile(n, g, c, s, with_rmask, r)
    /\ mask = NoValue
    /\ report = NoValue
    /\ CombineIdle /\ FlatIdle /\ FastaIdle

MaskBadProbes ==
    /\ mask = NoValue
    /\ mask' = [returned |-> mask_bad_probes(probes)]
    /\ UNCHANGED <<probes, report>>
    /\ UNCHANGED <<combineVars, flatVars, fastaVars>>

WarnBadProbes ==
    /\ report = NoValue
    /\ report' = warn_bad_probes(probes)
    /\ UNCHANGED <<probes, mask>>
    /\ UNCHANGED <<combineVars, flatVars, fastaVars>>

NextFilter == MaskBadProbes \/ WarnBadProbes

SpecFilter == InitFilter /\ [][NextFilter]_vars

\* Section 4.4's predicate: probe i of the profile is bad.
BadByRule(p, i) ==
    \/ p.coverage[i] < MIN_BIN_COVERAGE
    \/ p.spread[i] > MAX_BIN_SPREAD
    \/ ("rmask" \in DOMAIN p /\ p.rmask[i] > MAX_REPEAT_FRACTION)

\* C5: mask_bad_probes flags a probe exactly when coverage < minCoverage,
\* or spread > maxSpread, or the profile has an rmask column and the
\* probe's rmask > maxRepeatFraction; the mask has one flag per probe in
\* probe order; without an rmask column only coverage and spread decide.
C5_MaskIsRule ==
    mask # NoValue =>
        /\ Len(mask.returned) = Len(probes.chromosome)
        /\ \A i \in 1..Len(probes.chromosome) :
              /\ mask.returned[i] <=> BadByRule(probes, i)
              /\ "rmask" \notin DOMAIN probes =>
                    (mask.returned[i] <=>
                        \/ probes.coverage[i] < MIN_BIN_COVERAGE
                        \/ probes.spread[i] > MAX_BIN_SPREAD)

\* A profile with an rmask column whose first probe fails on rmask alone and
\* whose second probe sits on every threshold and passes.
C5_Witness ==
    /\ mask # NoValue
    /\ "rmask" \in DOMAIN probes
    /\ probes.coverage = <<MIN_BIN_COVERAGE, MIN_BIN_COVERAGE>>
    /\ probes.spread = <<MAX_BIN_SPREAD, MAX_BIN_SPREAD>>
    /\ probes.rmask = <<MAX_REPEAT_FRACTION + 1, MAX_REPEAT_FRACTION>>
    /\ mask.returned = <<TRUE, FALSE>>

\* The flagged probes of a kind, and all probes of a kind.
FlaggedFg(p) ==
    {i \in 1..Len(p.chromosome) : BadByRule(p, i) /\ p.gene[i] # "Background"}
FlaggedBg(p) ==
    {i \in 1..Len(p.chromosome) : BadByRule(p, i) /\ p.gene[i] = "Background"}
AllFg(p) == {i \in 1..Len(p.chromosome) : p.gene[i] # "Background"}
AllBg(p) == {i \in 1..Len(p.chromosome) : p.gene[i] = "Background"}

\* C10: warn_bad_probes never divides by zero and never fails; it writes
\* the foreground count, percentage and listing exactly when a flagged
\* probe has gene # "Background", the percentage being 100 * flagged
\* foreground / all foreground; it writes the background count and
\* percentage, with no listing, exactly when a flagged probe has gene =
\* "Background", the percentage being 100 * flagged background / all
\* background; and the flagged foreground and background probes together
\* are the probes mask_bad_probes flags.
C10_WarnReport ==
    report # NoValue =>
        LET nfg == Cardinality(FlaggedFg(probes))
            nbg == Cardinality(FlaggedBg(probes))
        IN  /\ ~ report.raised
            /\ report.fg # NoValue <=> nfg > 0
            /\ report.fg # NoValue =>
                  /\ report.fg.count = nfg
                  /\ report.fg.pct = <<100 * nfg, Cardinality(AllFg(probes))>>
                  /\ report.fg.pct[2] > 0
                  /\ Len(report.fg.lines) = nfg
                  /\ {report.fg.lines[k].label : k \in 1..nfg}
                        = {<<probes.chromosome[i], probes.start[i], probes.end[i]>>
                           : i \in FlaggedFg(probes)}
            /\ report.bg # NoValue <=> nbg > 0
            /\ report.bg # NoValue =>
                  /\ DOMAIN report.bg = {"count", "pct"}
                  /\ report.bg.count = nbg
                  /\ report.bg.pct = <<100 * nbg, Cardinality(AllBg(probes))>>
                  /\ report.bg.pct[2] > 0
            /\ nfg + nbg
                  = CountTrue(mask_bad_probes(probes))

\* A profile of background probes only, one of them flagged: the antitarget
\* line is written, the foreground warning is not.
C10_Witness ==
    /\ report # NoValue
    /\ probes.gene = <<"Background", "Background">>
    /\ report.fg = NoValue
    /\ report.bg # NoValue
    /\ report.bg.count = 1
    /\ report.bg.pct = <<100, 2>>


(***************************************************************************)
(* calculate_gc_lo, get_fasta_stats                                        *)
(***************************************************************************)
MaxSeqLen == 2
MaxIntervals == 2

\* The characters of a FASTA subsequence: the four bases and N, in upper
\* case and in lower case (soft-masked).
Letters == {"A", "T", "G", "C", "N", "a", "t", "g", "c", "n"}
LowerCase == {"a", "t", "g", "c", "n"}

\* The arguments of calculate_gc_lo: a string is a sequence of characters.
Subseqs == UNION { [1..n -> Letters] : n \in 0..MaxSeqLen }

\* The subsequences the indexed genome holds for an interval.
IntervalSubseqs ==
    { <<>>, <<"G", "C", "g", "c">>, <<"A", "T", "a", "t">>, <<"N", "n">>,
      <<"a", "n", "G">> }

\* What fasta_extract_regions yields for the probes: one subsequence per
\* (chromosome, start, end), in the order of the probes.
ExtractedRegions == UNION { [1..n -> IntervalSubseqs] : n \in 0..MaxIntervals }

\* str.count(ch) for a one-character ch
count(str, ch) == Cardinality({i \in DOMAIN str : str[i] = ch})

\* A float quotient, kept as the fraction <<numerator, denominator>>.
Quotient(n, d) == <<n, d>>
Zero == <<0, 1>>

\* lines 171-180 with the lowercase g and c left out of frac_lo.
calculate_gc_lo_at_only(str) ==
    LET cnt_at_lo == count(str, "a") + count(str, "t")
        cnt_at_up == count(str, "A") + count(str, "T")
        cnt_gc_lo == count(str, "g") + count(str, "c")
        cnt_gc_up == count(str, "G") + count(str, "C")
        tot == cnt_gc_up + cnt_gc_lo + cnt_at_up + cnt_at_lo
    IN  IF tot = 0
        THEN [gc |-> Zero, rmask |-> Zero]
        ELSE [gc |-> Quotient(cnt_gc_lo + cnt_gc_up, tot),
              rmask |-> Quotient(cnt_at_lo, tot)]

\* lines 171-180
calculate_gc_lo(str) ==
    LET cnt_at_lo == count(str, "a") + count(str, "t")
        cnt_at_up == count(str, "A") + count(str, "T")
        cnt_gc_lo == count(str, "g") + count(str, "c")
        cnt_gc_up == count(str, "G") + count(str, "C")
        tot == cnt_gc_up + cnt_gc_lo + cnt_at_up + cnt_at_lo
    IN  IF tot = 0
        THEN [gc |-> Zero, rmask |-> Zero]
        ELSE [gc |-> Quotient(cnt_gc_lo + cnt_gc_up, tot),
              rmask |-> Quotient(cnt_at_lo + cnt_gc_lo, tot)]

\* lines 162-166: the two arrays; unpacking zip(*[]) of no pairs into
\* gc_vals, rm_vals raises ValueError.
get_fasta_stats(extracted) ==
    LET gc_rm_vals == [i \in DOMAIN extracted |-> calculate_gc_lo(extracted[i])]
    IN  IF gc_rm_vals = <<>>
        THEN [raised |-> "ValueError"]
        ELSE [gc_vals |-> [i \in DOMAIN gc_rm_vals |-> gc_rm_vals[i].gc],
              rm_vals |-> [i \in DOMAIN gc_rm_vals |-> gc_rm_vals[i].rmask]]

InitFasta ==
    /\ FastaIdle
    /\ CombineIdle /\ FlatIdle /\ FilterIdle

CalculateGcLo ==
    /\ gc_lo = NoValue /\ fasta_stats = NoValue
    /\ \E str \in Subseqs :
         /\ subseq' = str
         /\ gc_lo' = calculate_gc_lo(str)
    /\ UNCHANGED <<fa_subseqs, fasta_stats>>
    /\ UNCHANGED <<combineVars, flatVars, filterVars>>

GetFastaStats ==
    /\ gc_lo = NoValue /\ fasta_stats = NoValue
    /\ \E extracted \in ExtractedRegions :
         /\ fa_subseqs' = extracted
         /\ fasta_stats' = get_fasta_stats(extracted)
    /\ UNCHANGED <<subseq, gc_lo>>
    /\ UNCHANGED <<combineVars, flatVars, filterVars>>

NextFasta == CalculateGcLo \/ GetFastaStats

SpecFasta == InitFasta /\ [][NextFasta]_vars

\* The fraction f is the quotient n / d.
IsQuotient(f, n, d) == f[2] # 0 /\ d # 0 /\ f[1] * d = n * f[2]

CountIn(str, letters) == Cardinality({i \in DOMAIN str : str[i] \in letters})

\* The result the statement of C6 gives for a subsequence, with `masked`
\* the characters counted as lowercase.
IsGcLoOf(res, str, masked) ==
    LET total == CountIn(str, {"A", "T", "G", "C", "a", "t", "g", "c"})
    IN  IF total = 0
        THEN res.gc = Zero /\ res.rmask = Zero
        ELSE /\ IsQuotient(res.gc, CountIn(str, {"G", "C", "g", "c"}), total)
             /\ IsQuotient(res.rmask, CountIn(str, masked), total)

\* C6 as stated: calculate_gc_lo returns (0.0, 0.0) for a string with no
\* A/T/G/C in either case, else gc = (G and C, either case) / total and
\* rmask = (lowercase characters of the subsequence) / total, total being
\* the number of A, T, G, C in either case; get_fasta_stats returns one
\* (gc, rmask) entry per interval in input order.
C6_LowercaseCharacters ==
    /\ gc_lo # NoValue => IsGcLoOf(gc_lo, subseq, LowerCase)
    /\ fasta_stats # NoValue =>
          /\ DOMAIN fasta_stats = {"gc_vals", "rm_vals"}
          /\ Len(fasta_stats.gc_vals) = Len(fa_subseqs)
          /\ Len(fasta_stats.rm_vals) = Len(fa_subseqs)
          /\ \A i \in 1..Len(fa_subseqs) :
                IsGcLoOf([gc |-> fasta_stats.gc_vals[i],
                          rmask |-> fasta_stats.rm_vals[i]],
                         fa_subseqs[i], LowerCase)

\* C6, amended: rmask = (lowercase a, t, g and c of the subsequence) /
\* total, other lowercase characters not counted; get_fasta_stats returns
\* one (gc, rmask) entry per interval in input order when there is at least
\* one interval, and raises ValueError when there is none.
C6_LowercaseBases ==
    /\ gc_lo # NoValue => IsGcLoOf(gc_lo, subseq, {"a", "t", "g", "c"})
    /\ fasta_stats # NoValue =>
          IF Len(fa_subseqs) = 0
          THEN fasta_stats = [raised |-> "ValueError"]
          ELSE /\ DOMAIN fasta_stats = {"gc_vals", "rm_vals"}
               /\ Len(fasta_stats.gc_vals) = Len(fa_subseqs)
               /\ Len(fasta_stats.rm_vals) = Len(fa_subseqs)
               /\ \A i \in 1..Len(fa_subseqs) :
                     IsGcLoOf([gc |-> fasta_stats.gc_vals[i],
                               rmask |-> fasta_stats.rm_vals[i]],
                              fa_subseqs[i], {"a", "t", "g", "c"})

\* calculate_gc_lo was applied to "ng": one base, a lowercase g, beside a
\* lowercase n that is no base.
C6_Witness ==
    /\ gc_lo # NoValue
    /\ Len(subseq) = 2
    /\ subseq = <<"n", "g">>
    /\ gc_lo = [gc |-> <<1, 1>>, rmask |-> <<1, 1>>]

====
